---------------------------- MODULE Spec2Model ----------------------------
(***************************************************************************)
(* Model of badge_dimensions_scanner.py: the PNG dimension sniffer         *)
(* (RAImageChecker.get_png_dimensions), the rate limiter                   *)
(* (RAImageChecker._wait_for_rate_limit), the catalog client (get_game,    *)
(* check_image_dimensions) and the audit driver (main).                    *)
(*                                                                         *)
(* Python values are modelled as records with a uniform shape:             *)
(*   a call's outcome  [kind, exc, val]  kind "value" | "None" | "raise"   *)
(*   a JSON value      [type, fields]    type "dict" | "list" | ...        *)
(*   an image size     <<width, height>>, each an unsigned 32-bit value    *)
(* Time is counted in ticks of 0.1 s.                                      *)
(***************************************************************************)
EXTENDS Integers, Sequences, FiniteSets, TLC

VARIABLES
    pc,          \* position of the program (harness or driver)
    data,        \* bytes handed to get_png_dimensions (response.read(), line 128)
    dimensions,  \* outcome of get_png_dimensions / check_image_dimensions
    start_id,    \* args.start_id
    end_id,      \* args.end_id
    game_id,     \* the loop variable of line 155 (start_id - 1 before the loop)
    game_data,   \* outcome of get_game (line 157)
    processed,   \* line 149
    errors,      \* line 150
    incorrect_dimensions,  \* line 148: the Findings
    clock,       \* time.time()
    last_request,          \* checker.last_request
    exit_code,   \* the process's exit status, -1 while it runs
    output,      \* what has been printed: progress lines and the report
    response,    \* the metadata endpoint's answer to the current identifier
    asset,       \* the asset host's answer to the current identifier
    waits,       \* history: the rate limiter's last two calls, with their times
    requests,    \* history: the rate limiter's calls and the requests, in order
    passes       \* history: one record per identifier whose pass has started

vars == <<pc, data, dimensions, start_id, end_id, game_id, game_data, processed,
          errors, incorrect_dimensions, clock, last_request, exit_code, output,
          response, asset, waits, requests, passes>>

(***************************************************************************)
(* Outcomes of a Python call.                                              *)
(***************************************************************************)
None == [kind |-> "None", exc |-> "", val |-> <<>>]

Value(v) == [kind |-> "value", exc |-> "", val |-> v]

Raise(e) == [kind |-> "raise", exc |-> e, val |-> <<>>]

Min(a, b) == IF a < b THEN a ELSE b

Max(a, b) == IF a < b THEN b ELSE a

(***************************************************************************)
(* The sniffer: get_png_dimensions (lines 98-113).                         *)
(***************************************************************************)
\* b'\x89PNG\r\n\x1a\n'
PNG_SIGNATURE == <<137, 80, 78, 71, 13, 10, 26, 10>>

\* a prefix test that looks at the first four bytes only
startswith_short(d, prefix) ==
    /\ Len(d) >= Len(prefix)
    /\ SubSeq(d, 1, 4) = SubSeq(prefix, 1, 4)

\* bytes.startswith(prefix)
startswith(d, prefix) ==
    /\ Len(d) >= Len(prefix)
    /\ SubSeq(d, 1, Len(prefix)) = prefix

\* d[lo:hi] for 0 <= lo <= hi: Python clamps both ends to len(d)
slice(d, lo, hi) == SubSeq(d, Min(lo, Len(d)) + 1, Min(hi, Len(d)))

\* An unsigned 32-bit value v is kept as its two 16-bit halves <<hi, lo>>,
\* v = hi * 65536 + lo, since the checker's integers stop at 2^31 - 1.
uint32(n) == <<n \div 65536, n % 65536>>

\* the same field read least significant byte first ('<L')
unpack_L_little(buf, i) ==
    <<buf[i + 3] * 256 + buf[i + 2], buf[i + 1] * 256 + buf[i]>>

\* one '>L' field: four bytes, most significant first, starting at buf[i]
unpack_L(buf, i) == <<buf[i] * 256 + buf[i + 1], buf[i + 2] * 256 + buf[i + 3]>>

\* struct.unpack('>LL', buf): struct.error unless buf holds exactly 8 bytes
struct_unpack_LL(buf) ==
    IF Len(buf) # 8
    THEN Raise("struct.error")
    ELSE Value(<<unpack_L(buf, 1), unpack_L(buf, 5)>>)

\* the sniffer without its except clause: struct.error reaches the caller
get_png_dimensions_uncaught(d) ==
    IF startswith(d, PNG_SIGNATURE)
    THEN struct_unpack_LL(slice(d, 16, 24))
    ELSE None

get_png_dimensions(d) ==
    IF startswith(d, PNG_SIGNATURE)
    THEN LET r == struct_unpack_LL(slice(d, 16, 24))
         IN  IF r.kind = "raise" /\ r.exc = "struct.error" THEN None ELSE r
    ELSE None

(***************************************************************************)
(* The rate limiter: _wait_for_rate_limit (lines 62-71).                   *)
(***************************************************************************)
\* self.request_delay = 0.5 s, in ticks of 0.1 s
request_delay == 5

\* self.last_request = 0 (line 56)
initial_last_request == 0

\* lines 67-70 with line 70 sleeping the whole delay
time_slept_whole(now, last) ==
    IF now - last < request_delay THEN request_delay ELSE 0

\* lines 67-70: the argument of time.sleep, 0 when line 70 is skipped
time_slept(now, last) ==
    LET time_since_last == now - last
    IN  IF time_since_last < request_delay
        THEN request_delay - time_since_last
        ELSE 0

\* the limiter with line 71 storing the time read at line 67
wait_stamping_now(now, last, over) ==
    LET slept == time_slept(now, last)
        woke == IF slept > 0 THEN now + slept + over ELSE now
    IN  [slept |-> slept, returned |-> woke, last_request |-> now]

\* The call made at time `now` with self.last_request = `last`, time.sleep
\* returning `over` ticks late: the ticks slept, the time at which the call
\* returns and the value line 71 leaves in self.last_request.
wait_for_rate_limit(now, last, over) ==
    LET slept == time_slept(now, last)
        woke == IF slept > 0 THEN now + slept + over ELSE now
    IN  [slept |-> slept, returned |-> woke, last_request |-> woke]

(***************************************************************************)
(* JSON values as json.loads returns them.                                 *)
(***************************************************************************)
NoFields == <<>>

JsonDict(f) == [type |-> "dict", fields |-> f, items |-> <<>>, n |-> 0]

JsonList(l) == [type |-> "list", fields |-> NoFields, items |-> l, n |-> 0]

JsonInt(n) == [type |-> "int", fields |-> NoFields, items |-> <<>>, n |-> n]

IconPath == "/Images/085573.png"

\* the bodies the metadata endpoint may answer with
MetaBodies ==
    {"<html>", "null", "{}", "7", "[Title]",
     "{Title}", "{Title,ImageIcon:''}", "{Title,ImageIcon}", "{ImageIcon}"}

\* json.loads(body): the parsed value, None for null, or JSONDecodeError
json_loads(body) ==
    CASE body = "null" -> None
      [] body = "{}" -> Value(JsonDict(NoFields))
      [] body = "7" -> Value(JsonInt(7))
      [] body = "[Title]" -> Value(JsonList(<<"Sonic">>))
      [] body = "{Title}" -> Value(JsonDict("Title" :> "Sonic"))
      [] body = "{Title,ImageIcon:''}" ->
            Value(JsonDict(("Title" :> "Sonic") @@ ("ImageIcon" :> "")))
      [] body = "{Title,ImageIcon}" ->
            Value(JsonDict(("Title" :> "Sonic") @@ ("ImageIcon" :> IconPath)))
      [] body = "{ImageIcon}" -> Value(JsonDict("ImageIcon" :> IconPath))
      [] OTHER -> Raise("JSONDecodeError")

\* the test isinstance(x, dict) in place of bool(x)
truthy_is_dict(x) == x.kind = "value" /\ x.val.type = "dict"

\* the test `x is not None` in place of bool(x)
truthy_not_none(x) == x.kind = "value"

\* bool(x) of a call's outcome x: None, an empty dict or list and 0 are false
truthy(x) ==
    /\ x.kind = "value"
    /\ CASE x.val.type = "dict" -> DOMAIN x.val.fields # {}
         [] x.val.type = "list" -> Len(x.val.items) > 0
         [] x.val.type = "int" -> x.val.n # 0

\* key in x: TypeError for a value that is no container
contains(key, x) ==
    CASE x.val.type = "dict" -> Value(key \in DOMAIN x.val.fields)
      [] x.val.type = "list" -> Value(\E i \in 1..Len(x.val.items) : x.val.items[i] = key)
      [] OTHER -> Raise("TypeError")

\* game_data.get(key, default)
dict_get(x, key, default) ==
    IF key \in DOMAIN x.val.fields THEN x.val.fields[key] ELSE default

(***************************************************************************)
(* The catalog client: get_game (lines 73-96) and check_image_dimensions   *)
(* (lines 115-132).  A response is [net, body]: net is "ok" or the         *)
(* exception urlopen raises.                                               *)
(***************************************************************************)
NoResponse == [net |-> "none", body |-> ""]

NoAsset == [net |-> "none", body |-> <<>>]

NetErrors == {"HTTPError", "URLError"}

MetaResponses ==
    {[net |-> "ok", body |-> b] : b \in MetaBodies}
    \cup {[net |-> e, body |-> ""] : e \in NetErrors}

\* lines 84-96 with the except clause narrowed to HTTPError
get_game_narrow(resp) ==
    IF resp.net = "HTTPError"
    THEN None
    ELSE IF resp.net # "ok" THEN Raise(resp.net) ELSE json_loads(resp.body)

\* lines 84-96: the request, the parse, and except Exception -> None
get_game(resp) ==
    LET r == IF resp.net # "ok" THEN Raise(resp.net) ELSE json_loads(resp.body)
    IN  IF r.kind = "raise" THEN None ELSE r

\* a PNG of the given size: signature, IHDR chunk header, fields, a tail
Png(w, h) ==
    PNG_SIGNATURE \o <<0, 0, 0, 13, 73, 72, 68, 82>>
        \o <<0, 0, w \div 256, w % 256>> \o <<0, 0, h \div 256, h % 256>>
        \o <<8, 6, 0, 0, 0>>

AssetBodies ==
    {Png(96, 96), Png(32, 32), Png(96, 64),
     PNG_SIGNATURE \o <<0, 0, 0, 13, 73, 72, 68, 82, 0, 0>>,
     <<71, 73, 70, 56, 57, 97, 96, 0, 96, 0>>}

AssetResponses ==
    {[net |-> "ok", body |-> b] : b \in AssetBodies}
    \cup {[net |-> "HTTPError", body |-> <<>>]}

\* lines 124-132: the request, the sniff, and except Exception -> None
check_image_dimensions(resp) ==
    LET r == IF resp.net # "ok" THEN Raise(resp.net) ELSE get_png_dimensions(resp.body)
    IN  IF r.kind = "raise" THEN None ELSE r

(***************************************************************************)
(* The audit driver: main (lines 134-217).                                 *)
(***************************************************************************)
MaxId == 3

StartIds == 1..2

EndIds == 0..MaxId

\* the ticks the metadata request takes: none, or as long as the limiter's
\* delay, so that the next wait sleeps or does not
Latencies == {0, request_delay}

\* the ticks the asset request takes (PaceSpec varies them)
AssetLatencies == {0}

\* the ticks time.sleep returns late
Oversleeps == {0}

\* line 164 without its second operand: 'ImageIcon' in game_data
has_icon_key(x) == contains("ImageIcon", x)

\* 'ImageIcon' in game_data and game_data['ImageIcon'] (line 164)
has_icon(x) ==
    LET c == contains("ImageIcon", x)
    IN  IF c.kind = "raise" THEN c
        ELSE IF ~c.val THEN Value(FALSE)
        ELSE IF x.val.type # "dict" THEN Raise("TypeError")
        ELSE Value(x.val.fields["ImageIcon"] # "")

\* bool(dimensions) (line 167): a tuple is true unless empty
dimensions_truthy(d) == d.kind = "value" /\ Len(d.val) > 0

\* line 168 with == in place of !=
is_incorrect_inverted(d) == d.val[1] = uint32(96) \/ d.val[2] = uint32(96)

\* line 168
is_incorrect(d) == d.val[1] # uint32(96) \/ d.val[2] # uint32(96)

\* lines 167-180 with errors += 1 also on the mismatch branch
classify_counting_mismatch(d) ==
    IF dimensions_truthy(d)
    THEN IF is_incorrect(d)
         THEN [append |-> TRUE, errors |-> 1]
         ELSE [append |-> FALSE, errors |-> 0]
    ELSE [append |-> FALSE, errors |-> 1]

\* lines 167-180 with line 180 run for every icon, measured or not
classify_always_erring(d) ==
    [append |-> dimensions_truthy(d) /\ is_incorrect(d), errors |-> 1]

\* lines 167-180 with the measure trusted only when the limiter has rested
classify_when_rested(d) ==
    IF dimensions_truthy(d) /\ clock - last_request >= request_delay
    THEN IF is_incorrect(d)
         THEN [append |-> TRUE, errors |-> 0]
         ELSE [append |-> FALSE, errors |-> 0]
    ELSE [append |-> FALSE, errors |-> 1]

\* lines 167-180: what the measured dimensions add to the Findings and to
\* the error counter
classify(d) ==
    IF dimensions_truthy(d)
    THEN IF is_incorrect(d)
         THEN [append |-> TRUE, errors |-> 0]
         ELSE [append |-> FALSE, errors |-> 0]
    ELSE [append |-> FALSE, errors |-> 1]

\* list.insert(0, x)
list_insert_first(l, x) == <<x>> \o l

\* the new item stored over the list's last one
list_replace_last(l, x) ==
    IF l = <<>> THEN <<x>> ELSE [l EXCEPT ![Len(l)] = x]

\* list.append(x)
list_append(l, x) == Append(l, x)

\* lines 170-175: the record appended to incorrect_dimensions
Finding(id, gd, d) ==
    [id |-> id,
     title |-> dict_get(gd, "Title", "Unknown"),
     path |-> gd.val.fields["ImageIcon"],
     dimensions |-> d.val]

\* a printed line that reports the counters: progress, results, partial
\* results, or the traceback of an uncaught exception
Line(kind) ==
    [kind |-> kind, processed |-> processed, errors |-> errors,
     total |-> end_id - start_id + 1, findings |-> incorrect_dimensions]

\* What the metadata endpoint answered, seen from outside the program:
\* no usable answer, an empty value, a value that is no container, an
\* object or list without an icon path, an object with one.
MetaKind(resp) ==
    CASE resp.net # "ok" \/ resp.body = "<html>" -> "failed"
      [] resp.body \in {"null", "{}"} -> "empty"
      [] resp.body = "7" -> "scalar"
      [] resp.body \in {"{Title,ImageIcon}", "{ImageIcon}"} -> "icon"
      [] OTHER -> "noicon"

\* the 8-byte signature 89 50 4E 47 0D 0A 1A 0A
HasSignature(d) ==
    /\ Len(d) >= 8
    /\ d[1] = 137 /\ d[2] = 80 /\ d[3] = 78 /\ d[4] = 71
    /\ d[5] = 13 /\ d[6] = 10 /\ d[7] = 26 /\ d[8] = 10

\* What the asset host answered, seen from outside the program: nothing, or
\* bytes that are a PNG header with both fields or are not.
AssetKind(resp) ==
    IF resp.net # "ok" THEN "failed"
    ELSE IF HasSignature(resp.body) /\ Len(resp.body) >= 24 THEN "png"
    ELSE "junk"

\* the size a PNG's header states, as <<width, height>> in pixels
AssetSize(resp) ==
    IF AssetKind(resp) = "png"
    THEN <<resp.body[19] * 256 + resp.body[20], resp.body[23] * 256 + resp.body[24]>>
    ELSE <<>>

\* the title an answer with an icon path carries, "Unknown" when it has none
MetaTitle(resp) ==
    CASE resp.net = "ok" /\ resp.body = "{Title,ImageIcon}" -> "Sonic"
      [] resp.net = "ok" /\ resp.body = "{ImageIcon}" -> "Unknown"
      [] OTHER -> ""

NewPass(id) ==
    [id |-> id, meta |-> "pending", asset |-> "none", size |-> <<>>,
     errs |-> 0, finds |-> 0, counted |-> FALSE, ended |-> FALSE]

\* the history with the current identifier's record changed
Answered(kind) == [passes EXCEPT ![Len(passes)].meta = kind]

Measured(kind, size) ==
    [passes EXCEPT ![Len(passes)].asset = kind, ![Len(passes)].size = size]

Accounted(errs, finds) ==
    [passes EXCEPT ![Len(passes)].errs = @ + errs, ![Len(passes)].finds = @ + finds]

Ended(h, counted) ==
    [h EXCEPT ![Len(h)].ended = TRUE, ![Len(h)].counted = counted]

\* the last two entries of a history
LastTwo(h) == IF Len(h) > 2 THEN SubSeq(h, Len(h) - 1, Len(h)) ELSE h

\* the state of the program before main's loop
Idle ==
    /\ start_id = 1 /\ end_id = 0 /\ game_id = 0
    /\ game_data = None
    /\ processed = 0 /\ errors = 0 /\ incorrect_dimensions = <<>>
    /\ clock = 2 * request_delay /\ last_request = initial_last_request
    /\ exit_code = -1 /\ output = <<>>
    /\ response = NoResponse /\ asset = NoAsset
    /\ waits = <<>> /\ requests = <<>> /\ passes = <<>>

\* lines 145-152
Init ==
    /\ pc = "for"
    /\ start_id \in StartIds /\ end_id \in EndIds
    /\ game_id = start_id - 1
    /\ data = <<>> /\ dimensions = None /\ game_data = None
    /\ processed = 0 /\ errors = 0 /\ incorrect_dimensions = <<>>
    /\ clock = 2 * request_delay /\ last_request = initial_last_request
    /\ exit_code = -1 /\ output = <<>>
    /\ response = NoResponse /\ asset = NoAsset
    /\ waits = <<>> /\ requests = <<>> /\ passes = <<>>

\* line 155 over range(start_id, end_id + 2)
range_one_more(id) == id + 1 <= end_id + 1

\* line 155: range(start_id, end_id + 1) has an identifier after id
range_has_next(id) == id + 1 <= end_id

\* line 155: the next identifier of range(start_id, end_id + 1), or the end
For ==
    /\ pc = "for"
    /\ IF range_has_next(game_id)
       THEN /\ game_id' = game_id + 1
            /\ pc' = "get_game"
            /\ passes' = Append(passes, NewPass(game_id + 1))
       ELSE /\ pc' = "report"
            /\ UNCHANGED <<game_id, passes>>
    /\ response' = NoResponse /\ asset' = NoAsset
    /\ UNCHANGED <<data, dimensions, start_id, end_id, game_data, processed, errors,
                   incorrect_dimensions, clock, last_request, exit_code, output,
                   waits, requests>>

\* line 157: get_game = the rate limiter's wait, then the metadata request,
\* for the answers, latencies and late wake-ups of the given sets
GetGameIn(Responses, Lats, Overs) ==
    /\ pc = "get_game"
    /\ \E resp \in Responses, lat \in Lats, over \in Overs :
          LET w == wait_for_rate_limit(clock, last_request, over)
          IN  /\ last_request' = w.last_request
              /\ waits' = LastTwo(Append(waits,
                    [called |-> clock, slept |-> w.slept,
                     returned |-> w.returned, sent |-> w.returned]))
              /\ requests' = requests \o <<[kind |-> "wait", id |-> game_id],
                                            [kind |-> "metadata", id |-> game_id]>>
              /\ clock' = w.returned + lat
              /\ response' = resp
              /\ game_data' = get_game(resp)
              /\ passes' = Answered(MetaKind(resp))
    /\ pc' = "check_data"
    /\ UNCHANGED <<data, dimensions, start_id, end_id, game_id, processed, errors,
                   incorrect_dimensions, exit_code, output, asset>>

GetGame == GetGameIn(MetaResponses, Latencies, Oversleeps)

\* lines 159-164 and 181-183: no metadata, no icon, or on to the asset
CheckData ==
    /\ pc = "check_data"
    /\ IF ~truthy(game_data)
       THEN /\ errors' = errors + 1
            /\ passes' = Ended(Accounted(1, 0), FALSE)
            /\ pc' = "for"
            /\ UNCHANGED <<exit_code, output>>
       ELSE LET icon == has_icon(game_data)
            IN  IF icon.kind = "raise"
                THEN /\ pc' = "exit"
                     /\ exit_code' = 1
                     /\ output' = Append(output, Line("traceback"))
                     /\ UNCHANGED <<errors, passes>>
                ELSE IF icon.val
                THEN /\ pc' = "check_image"
                     /\ UNCHANGED <<errors, exit_code, output, passes>>
                ELSE /\ errors' = errors + 1
                     /\ passes' = Accounted(1, 0)
                     /\ pc' = "count"
                     /\ UNCHANGED <<exit_code, output>>
    /\ UNCHANGED <<data, dimensions, start_id, end_id, game_id, game_data, processed,
                   incorrect_dimensions, clock, last_request, response, asset,
                   waits, requests>>

\* line 165: check_image_dimensions = the asset request, then the sniff,
\* for the answers and latencies of the given sets
CheckImageIn(Responses, Lats) ==
    /\ pc = "check_image"
    /\ \E resp \in Responses, lat \in Lats :
          /\ asset' = resp
          /\ requests' = Append(requests, [kind |-> "asset", id |-> game_id])
          /\ clock' = clock + lat
          /\ data' = IF resp.net = "ok" THEN resp.body ELSE data
          /\ dimensions' = check_image_dimensions(resp)
          /\ passes' = Measured(AssetKind(resp), AssetSize(resp))
    /\ pc' = "classify"
    /\ UNCHANGED <<start_id, end_id, game_id, game_data, processed, errors,
                   incorrect_dimensions, last_request, exit_code, output, response,
                   waits>>

CheckImage == CheckImageIn(AssetResponses, AssetLatencies)

\* lines 167-180: a Finding, a correct icon, or dimensions that are unknown
Classify ==
    /\ pc = "classify"
    /\ LET c == classify(dimensions)
       IN  /\ incorrect_dimensions' =
                IF c.append
                THEN list_append(incorrect_dimensions,
                                 Finding(game_id, game_data, dimensions))
                ELSE incorrect_dimensions
           /\ errors' = errors + c.errors
           /\ passes' = Accounted(c.errors, IF c.append THEN 1 ELSE 0)
    /\ pc' = "count"
    /\ UNCHANGED <<data, dimensions, start_id, end_id, game_id, game_data, processed,
                   clock, last_request, exit_code, output, response, asset,
                   waits, requests>>

\* line 186 with a period of 5
progress_due_every_fifth(n) == n % 5 = 0

\* processed % 10 == 0 (line 186)
progress_due(n) == n % 10 = 0

\* lines 185-187: count the identifier, print the progress every tenth
Count ==
    /\ pc = "count"
    /\ processed' = processed + 1
    /\ output' = IF progress_due(processed + 1)
                 THEN Append(output, [Line("progress") EXCEPT !.processed = processed + 1])
                 ELSE output
    /\ passes' = Ended(passes, TRUE)
    /\ pc' = "for"
    /\ UNCHANGED <<data, dimensions, start_id, end_id, game_id, game_data, errors,
                   incorrect_dimensions, clock, last_request, exit_code, response,
                   asset, waits, requests>>

\* lines 189-203: the report of a run that reached the end of the range
Report ==
    /\ pc = "report"
    /\ output' = Append(output, Line("results"))
    /\ exit_code' = 0
    /\ pc' = "exit"
    /\ UNCHANGED <<data, dimensions, start_id, end_id, game_id, game_data, processed,
                   errors, incorrect_dimensions, clock, last_request, response,
                   asset, waits, requests, passes>>

\* lines 205-217: KeyboardInterrupt anywhere inside the try block
Interrupt ==
    /\ pc \in {"for", "get_game", "check_data", "check_image", "classify", "count", "report"}
    /\ output' = Append(output, Line("partial"))
    /\ exit_code' = 1
    /\ pc' = "exit"
    /\ UNCHANGED <<data, dimensions, start_id, end_id, game_id, game_data, processed,
                   errors, incorrect_dimensions, clock, last_request, response,
                   asset, waits, requests, passes>>

Next ==
    \/ For
    \/ GetGame
    \/ CheckData
    \/ CheckImage
    \/ Classify
    \/ Count
    \/ Report
    \/ Interrupt

Spec == Init /\ [][Next]_vars

(***************************************************************************)
(* The same driver paced against a finer clock: the metadata request fails *)
(* or names an icon, the icon is a 96 x 96 PNG, and a network call takes   *)
(* no time, part of the delay, the delay, or (two calls) more.             *)
(***************************************************************************)
PaceMetaResponses ==
    {[net |-> "URLError", body |-> ""], [net |-> "ok", body |-> "{Title,ImageIcon}"]}

PaceAssetResponses == {[net |-> "ok", body |-> Png(96, 96)]}

PaceLatencies == {0, 2, request_delay}

PaceOversleeps == {0, 1}

PaceGetGame == GetGameIn(PaceMetaResponses, PaceLatencies, PaceOversleeps)

PaceCheckImage == CheckImageIn(PaceAssetResponses, PaceLatencies)

PaceNext ==
    \/ For
    \/ PaceGetGame
    \/ CheckData
    \/ PaceCheckImage
    \/ Classify
    \/ Count
    \/ Report
    \/ Interrupt

PaceSpec == Init /\ [][PaceNext]_vars

(***************************************************************************)
(* The same driver over a range long enough for the progress lines: the    *)
(* answers are those of the paced driver, no call takes time, and the      *)
(* metadata request fails for at most MaxGaps identifiers of a run.        *)
(***************************************************************************)
MaxLongId == 22

MaxGaps == 2

LongStartIds == {1, 3}

LongEndIds == {MaxLongId}

LongMetaResponses ==
    IF errors < MaxGaps
    THEN PaceMetaResponses
    ELSE {[net |-> "ok", body |-> "{Title,ImageIcon}"]}

LongInit ==
    /\ pc = "for"
    /\ start_id \in LongStartIds /\ end_id \in LongEndIds
    /\ game_id = start_id - 1
    /\ data = <<>> /\ dimensions = None /\ game_data = None
    /\ processed = 0 /\ errors = 0 /\ incorrect_dimensions = <<>>
    /\ clock = 2 * request_delay /\ last_request = initial_last_request
    /\ exit_code = -1 /\ output = <<>>
    /\ response = NoResponse /\ asset = NoAsset
    /\ waits = <<>> /\ requests = <<>> /\ passes = <<>>

LongGetGame == GetGameIn(LongMetaResponses, {0}, {0})

LongCheckImage == CheckImageIn(PaceAssetResponses, {0})

LongNext ==
    \/ For
    \/ LongGetGame
    \/ CheckData
    \/ LongCheckImage
    \/ Classify
    \/ Count
    \/ Report
    \/ Interrupt

LongSpec == LongInit /\ [][LongNext]_vars

(***************************************************************************)
(* Inputs of the sniffer harness: a head of 8 bytes (the signature, the    *)
(* signature with one byte changed, or another container's magic), 8 bytes *)
(* of chunk header, two 4-byte fields, a tail, all cut to any length.      *)
(***************************************************************************)
MaxTail == 2

Replace(s, i, b) == [s EXCEPT ![i] = b]

Heads ==
    {PNG_SIGNATURE}
    \cup {Replace(PNG_SIGNATURE, i, 0) : i \in 1..8}
    \cup {<<71, 73, 70, 56, 57, 97, 96, 0>>, <<255, 216, 255, 224, 0, 16, 74, 70>>}

ChunkHeaders ==
    {<<0, 0, 0, 13, 73, 72, 68, 82>>, <<0, 0, 0, 0, 0, 0, 0, 0>>,
     <<0, 0, 0, 96, 0, 0, 0, 96>>}

Words ==
    {<<0, 0, 0, 96>>, <<0, 0, 0, 64>>, <<0, 0, 1, 0>>, <<96, 0, 0, 0>>,
     <<255, 255, 255, 255>>, <<1, 2, 3, 4>>}

Tails == {[i \in 1..k |-> t] : k \in 0..MaxTail, t \in {8, 255}}

Cut(s, n) == SubSeq(s, 1, Min(n, Len(s)))

SniffInputs ==
    {Cut(h \o c \o w \o v \o t, n) :
        h \in Heads, c \in ChunkHeaders, w \in Words, v \in Words, t \in Tails,
        n \in 0..(24 + MaxTail)}

SniffInit ==
    /\ pc = "sniff"
    /\ data \in SniffInputs
    /\ dimensions = None
    /\ Idle

Sniff ==
    /\ pc = "sniff"
    /\ dimensions' = get_png_dimensions(data)
    /\ pc' = "sniffed"
    /\ UNCHANGED <<data, start_id, end_id, game_id, game_data, processed, errors,
                   incorrect_dimensions, clock, last_request, exit_code, output,
                   response, asset, waits, requests, passes>>

SniffNext == Sniff

SniffSpec == SniffInit /\ [][SniffNext]_vars

(***************************************************************************)
(* Claims about the sniffer, checked under SniffSpec.                      *)
(***************************************************************************)
\* byte k (0 = most significant) of an unsigned 32-bit value
ByteOf(v, k) ==
    CASE k = 0 -> v[1] \div 256
      [] k = 1 -> v[1] % 256
      [] k = 2 -> v[2] \div 256
      [] k = 3 -> v[2] % 256

IsUint32(v) == Len(v) = 2 /\ v[1] \in 0..65535 /\ v[2] \in 0..65535

\* C1: for data that starts with the signature and holds at least 24 bytes,
\* get_png_dimensions returns (width, height) with width the big-endian
\* unsigned 32-bit value of bytes 16..19 and height that of bytes 20..23;
\* replacing bytes 8..15 or the bytes from offset 24 on leaves the result
\* as it is.
C1_ExactFields ==
    (pc = "sniffed" /\ HasSignature(data) /\ Len(data) >= 24) =>
        /\ dimensions.kind = "value"
        /\ Len(dimensions.val) = 2
        /\ IsUint32(dimensions.val[1]) /\ IsUint32(dimensions.val[2])
        /\ \A k \in 0..3 :
              /\ ByteOf(dimensions.val[1], k) = data[17 + k]
              /\ ByteOf(dimensions.val[2], k) = data[21 + k]
        /\ \A c \in ChunkHeaders, t \in Tails :
              get_png_dimensions(SubSeq(data, 1, 8) \o c \o SubSeq(data, 17, 24) \o t)
                = dimensions

\* a 96 x 64 image with a real chunk header and a tail has been measured
C1_Witness ==
    /\ pc = "sniffed"
    /\ HasSignature(data) /\ Len(data) > 24
    /\ SubSeq(data, 9, 16) = <<0, 0, 0, 13, 73, 72, 68, 82>>
    /\ dimensions = Value(<<uint32(96), uint32(64)>>)

\* C2: data shorter than 8 bytes, or whose first 8 bytes are not the
\* signature, gives None whatever the remaining bytes are.
C2_NoSignatureNone ==
    (pc = "sniffed" /\ ~HasSignature(data)) => dimensions = None

\* 24 bytes or more whose head differs from the signature in its last byte
\* only, and whose fields would read 96 x 96
C2_Witness ==
    /\ pc = "sniffed"
    /\ Len(data) >= 24
    /\ SubSeq(data, 1, 7) = <<137, 80, 78, 71, 13, 10, 26>> /\ data[8] # 10
    /\ SubSeq(data, 17, 24) = <<0, 0, 0, 96, 0, 0, 0, 96>>
    /\ dimensions = None

\* C3: data that starts with the signature and holds 8 to 23 bytes gives
\* None and raises nothing; in every case the sniffer's outcome is None or
\* a pair of two values, never one value alone.
C3_ShortNone ==
    pc = "sniffed" =>
        /\ (HasSignature(data) /\ Len(data) \in 8..23) => dimensions = None
        /\ dimensions.kind # "raise"
        /\ dimensions.kind = "value" =>
              /\ Len(dimensions.val) = 2
              /\ IsUint32(dimensions.val[1]) /\ IsUint32(dimensions.val[2])

\* a signed payload one byte short of the second field has been sniffed
C3_Witness ==
    /\ pc = "sniffed"
    /\ HasSignature(data) /\ Len(data) = 23
    /\ dimensions = None

(***************************************************************************)
(* Claims about the driver and the client, checked under Spec.             *)
(***************************************************************************)
Indexes(h) == 1..Len(h)

\* how many entries of a history satisfy a test
HowMany(h, Test(_)) == Cardinality({k \in Indexes(h) : Test(h[k])})

FindingsFor(id) ==
    Cardinality({i \in Indexes(incorrect_dimensions) : incorrect_dimensions[i].id = id})

\* the size a history record states, in the form the sniffer returns
SizeOf(p) == <<uint32(p.size[1]), uint32(p.size[2])>>

LastLine == output[Len(output)].kind

NormalEnd == pc = "exit" /\ exit_code = 0

\* C4: every Finding's dimensions differ from (96, 96); a Finding exists only
\* for an identifier whose asset was fetched and measured, and holds that
\* measure; an asset that measures (96, 96) adds no Finding and no error.
C4_FindingsAreMismatches ==
    /\ \A i \in Indexes(incorrect_dimensions) :
          LET f == incorrect_dimensions[i]
          IN  /\ f.dimensions # <<<<0, 96>>, <<0, 96>>>>
              /\ \E k \in Indexes(passes) :
                    /\ passes[k].id = f.id
                    /\ passes[k].meta = "icon"
                    /\ passes[k].asset = "png"
                    /\ SizeOf(passes[k]) = f.dimensions
    /\ \A k \in Indexes(passes) :
          (passes[k].asset = "png" /\ passes[k].size = <<96, 96>>) =>
              /\ passes[k].errs = 0 /\ passes[k].finds = 0
              /\ FindingsFor(passes[k].id) = 0

\* a Finding has been recorded and a 96 x 96 icon has been counted
C4_Witness ==
    /\ Len(incorrect_dimensions) >= 1
    /\ \E k \in Indexes(passes) :
          passes[k].counted /\ passes[k].asset = "png" /\ passes[k].size = <<96, 96>>

\* C5: the pass of an identifier adds one Finding, or one error, or neither,
\* never both and never two of either, whatever was fetched and measured; a
\* pass that ran to its end adds neither only when the icon measures 96 x 96.
C5_OneOutcomePerIdentifier ==
    /\ \A k \in Indexes(passes) :
          /\ <<passes[k].errs, passes[k].finds>> \in {<<0, 0>>, <<1, 0>>, <<0, 1>>}
          /\ FindingsFor(passes[k].id) = passes[k].finds
          /\ (passes[k].ended /\ passes[k].errs = 0 /\ passes[k].finds = 0) =>
                (passes[k].asset = "png" /\ passes[k].size = <<96, 96>>)
    /\ errors = Cardinality({k \in Indexes(passes) : passes[k].errs = 1})
    /\ Len(incorrect_dimensions) = Cardinality({k \in Indexes(passes) : passes[k].finds = 1})

\* three passes have ended: one with an error, one with a Finding, one with
\* neither
C5_Witness ==
    /\ \E k \in Indexes(passes) : passes[k].ended /\ passes[k].errs = 1
    /\ \E k \in Indexes(passes) : passes[k].ended /\ passes[k].finds = 1
    /\ \E k \in Indexes(passes) :
          passes[k].ended /\ passes[k].errs = 0 /\ passes[k].finds = 0

\* the terminal error states, told from what the endpoints answered
NoMetadata(p) == p.meta \in {"failed", "empty"}

NoAssetPath(p) == p.meta = "noicon"

AssetFetchFailed(p) == p.asset = "failed"

Unparseable(p) == p.asset = "junk"

EndedInError(p) ==
    NoMetadata(p) \/ NoAssetPath(p) \/ AssetFetchFailed(p) \/ Unparseable(p)

MetadataFetched(p) == p.meta \in {"empty", "noicon", "icon", "scalar"}

MetadataPresent(p) == p.meta \in {"noicon", "icon", "scalar"}

\* identifiers 1..3: 1 without metadata, 2 measuring 96 x 96, 3 measuring 32 x 32
Scenario123 ==
    /\ start_id = 1 /\ end_id = 3 /\ Len(passes) = 3
    /\ passes[1].meta = "failed"
    /\ passes[2].meta = "icon" /\ passes[2].size = <<96, 96>>
    /\ passes[3].meta = "icon" /\ passes[3].size = <<32, 32>>

ScenarioResult ==
    /\ processed = 2 /\ errors = 1
    /\ Len(incorrect_dimensions) = 1
    /\ incorrect_dimensions[1].id = 3
    /\ incorrect_dimensions[1].dimensions = <<<<0, 32>>, <<0, 32>>>>

\* C6 as stated: at normal completion errors counts the identifiers that
\* ended in NoMetadata, NoAssetPath, AssetFetchFailed or Unparseable, and
\* processed counts the identifiers whose metadata fetch succeeded.
C6_CountersAsStated ==
    NormalEnd =>
        /\ errors = HowMany(passes, EndedInError)
        /\ processed = HowMany(passes, MetadataFetched)

\* C6 (amended): at normal completion errors counts the identifiers that
\* ended in NoMetadata, NoAssetPath, AssetFetchFailed or Unparseable, and
\* processed counts the identifiers whose metadata fetch succeeded with a
\* value that is not empty (a fetch that failed, or that gave null or an
\* empty object, counts as an error and not as processed); identifiers 1..3
\* with 1 failing, 2 measuring 96 x 96 and 3 measuring 32 x 32 give
\* processed = 2, errors = 1 and the one Finding of 3 with (32, 32).
C6_Counters ==
    NormalEnd =>
        /\ errors = HowMany(passes, EndedInError)
        /\ processed = HowMany(passes, MetadataPresent)
        /\ Scenario123 => ScenarioResult

\* the run of identifiers 1..3 of the example has ended normally
C6_Witness == NormalEnd /\ Scenario123 /\ ScenarioResult

\* C7: a failure of the metadata request, of the asset request or of the
\* sniff is absorbed inside its identifier's pass, which counts one error
\* and goes on; a run ends only with the report after the last identifier
\* of the range, or with a user interrupt.
C7_FailuresAbsorbed ==
    /\ \A k \in Indexes(passes) :
          (passes[k].ended /\ EndedInError(passes[k])) => passes[k].errs = 1
    /\ pc = "exit" =>
          \/ LastLine = "partial"
          \/ /\ LastLine = "results"
             /\ Len(passes) = Max(end_id - start_id + 1, 0)
             /\ \A k \in Indexes(passes) : passes[k].ended

\* C8: get_game and check_image_dimensions raise nothing: on a failure of
\* the request or of the parse each returns None, and each returns a value
\* only when the request and the parse succeeded.
C8_ClientNeverRaises ==
    /\ pc = "check_data" =>
          /\ game_data.kind # "raise"
          /\ (response.net # "ok" \/ response.body = "<html>") => game_data.kind = "None"
          /\ game_data.kind = "value" =>
                (response.net = "ok" /\ response.body \in MetaBodies \ {"<html>"})
    /\ pc = "classify" =>
          /\ dimensions.kind # "raise"
          /\ AssetKind(asset) # "png" => dimensions.kind = "None"
          /\ dimensions.kind = "value" => asset.net = "ok"

\* get_game has returned None for a body that is no JSON, after an earlier
\* identifier's asset request failed and was counted as one error
C8_Witness ==
    /\ pc = "check_data"
    /\ response.net = "ok" /\ response.body = "<html>"
    /\ game_data.kind = "None"
    /\ \E k \in Indexes(passes) :
          passes[k].ended /\ passes[k].asset = "failed" /\ passes[k].errs = 1

\* C9: the identifiers are visited in ascending order from start_id, each
\* once; the Findings are strictly increasing by identifier, and each
\* Finding's identifier lies in [start_id, end_id] and is not greater than
\* the identifier being processed.
C9_AscendingOrder ==
    /\ \A k \in Indexes(passes) : passes[k].id = start_id + k - 1
    /\ Len(passes) = game_id - start_id + 1
    /\ game_id <= Max(end_id, start_id - 1)
    /\ \A i \in Indexes(incorrect_dimensions) :
          /\ incorrect_dimensions[i].id \in start_id..end_id
          /\ incorrect_dimensions[i].id <= game_id
          /\ i > 1 => incorrect_dimensions[i - 1].id < incorrect_dimensions[i].id
    /\ \A i \in Indexes(requests) :
          i > 1 => requests[i - 1].id <= requests[i].id

\* two Findings have been recorded, with an identifier without one between
C9_Witness ==
    /\ Len(incorrect_dimensions) = 2
    /\ incorrect_dimensions[1].id = 1 /\ incorrect_dimensions[2].id = 3

\* C10: two consecutive calls of the rate limiter return at least
\* request_delay apart, and so two consecutive metadata requests are issued
\* at least request_delay apart.
C10_Spacing ==
    /\ \A i \in Indexes(waits) :
          /\ waits[i].called <= waits[i].returned
          /\ waits[i].returned <= waits[i].sent
          /\ waits[i].sent <= clock
    /\ Len(waits) = 2 =>
          /\ waits[2].returned - waits[1].returned >= request_delay
          /\ waits[2].sent - waits[1].sent >= request_delay

\* a call found part of the delay elapsed and slept the rest
C10_Witness ==
    /\ Len(waits) = 2
    /\ waits[2].slept > 0 /\ waits[2].slept < request_delay
    /\ waits[2].returned - waits[1].returned = request_delay

(***************************************************************************)
(* Claims about the rate limiter's single call, checked under PaceSpec.    *)
(***************************************************************************)
\* C11: a call of the rate limiter's wait does not sleep when at least
\* request_delay has elapsed since the previous call returned, and the first
\* call of a fresh limiter does not sleep; a call that sleeps asks time.sleep
\* for exactly request_delay minus the elapsed time; every call leaves in
\* last_request the time at which it returns.
C11_WaitContract ==
    /\ Len(waits) = 0 => last_request = initial_last_request
    /\ Len(waits) >= 1 => last_request = waits[Len(waits)].returned
    /\ Len(waits) = 1 =>
          /\ waits[1].slept = 0
          /\ waits[1].returned = waits[1].called
    /\ Len(waits) = 2 =>
          LET elapsed == waits[2].called - waits[1].returned
          IN  /\ elapsed >= request_delay =>
                    /\ waits[2].slept = 0
                    /\ waits[2].returned = waits[2].called
              /\ waits[2].slept > 0 =>
                    /\ waits[2].slept = request_delay - elapsed
                    /\ waits[2].returned >= waits[2].called + waits[2].slept

\* the first call did not sleep; the second found 2 ticks elapsed, slept the
\* 3 that remained, woke one tick late and stored the time of its return
C11_Witness ==
    /\ Len(passes) = 2 /\ Len(waits) = 2
    /\ waits[1].slept = 0
    /\ waits[2].called - waits[1].returned = 2
    /\ waits[2].slept = request_delay - 2
    /\ waits[2].returned = waits[2].called + waits[2].slept + 1
    /\ last_request = waits[2].returned

(***************************************************************************)
(* Claims about the ways a run ends, checked under Spec.                   *)
(***************************************************************************)
\* C12: a run ends in one of two ways: with the full report and exit status
\* 0, or, after a user interrupt, with the partial report of the counters
\* and Findings gathered so far and exit status 1; the exit status is 1 only
\* after a user interrupt, and a report is the last thing printed either way.
C12_TwoEndings ==
    pc = "exit" =>
        /\ Len(output) >= 1
        /\ \/ /\ exit_code = 0 /\ LastLine = "results"
           \/ /\ exit_code = 1 /\ LastLine = "partial"
        /\ output[Len(output)].processed = processed
        /\ output[Len(output)].errors = errors
        /\ output[Len(output)].findings = incorrect_dimensions

\* C13: a user interrupt takes effect between identifiers only: the partial
\* report accounts for a whole number of identifiers, each either counted in
\* full (its pass ran to its end) or not at all, and never shows the error
\* or the Finding of an identifier whose pass has not been counted to its end.
C13_InterruptBetweenIdentifiers ==
    (pc = "exit" /\ LastLine = "partial") =>
        \A k \in Indexes(passes) :
            \/ passes[k].ended
            \/ /\ passes[k].errs = 0 /\ passes[k].finds = 0
               /\ FindingsFor(passes[k].id) = 0

(***************************************************************************)
(* The outcome of a run as a function of what the endpoints answered, in   *)
(* the order of the identifiers: no clock, no limiter.                     *)
(***************************************************************************)
ReplayCounted(p) == p.meta \in {"noicon", "icon"}

ReplayFinding(p) ==
    p.meta = "icon" /\ p.asset = "png" /\ p.size # <<96, 96>>

ReplayError(p) ==
    \/ p.meta \in {"failed", "empty", "noicon"}
    \/ p.meta = "icon" /\ p.asset \in {"failed", "junk"}

\* the identifiers and sizes of the Findings, in order
RECURSIVE ReplayFindings(_)
ReplayFindings(h) ==
    IF h = <<>> THEN <<>>
    ELSE LET p == h[Len(h)]
             before == ReplayFindings(SubSeq(h, 1, Len(h) - 1))
         IN  IF ReplayFinding(p)
             THEN Append(before, [id |-> p.id, dimensions |-> SizeOf(p)])
             ELSE before

FoundSizes ==
    [i \in Indexes(incorrect_dimensions) |->
        [id |-> incorrect_dimensions[i].id,
         dimensions |-> incorrect_dimensions[i].dimensions]]

\* C14: the outcome is a function of the range and of the answers received:
\* between identifiers and at normal completion, processed, errors and the
\* ordered Findings (identifier and size) are what the sequence of metadata
\* answers and asset bytes alone determines, whatever the requests'
\* latencies and whether the limiter slept or not, and a Finding is
\* recorded with the title and path of its identifier's metadata answer; two
\* runs with the same answers so end alike.
C14_Deterministic ==
    /\ (pc \in {"for", "report"} \/ NormalEnd) =>
          /\ processed = HowMany(passes, ReplayCounted)
          /\ errors = HowMany(passes, ReplayError)
          /\ FoundSizes = ReplayFindings(passes)
    /\ (pc = "count" /\ passes[Len(passes)].finds = 1) =>
          incorrect_dimensions[Len(incorrect_dimensions)] =
              [id |-> game_id, title |-> MetaTitle(response), path |-> IconPath,
               dimensions |-> SizeOf(passes[Len(passes)])]

\* a run of three identifiers has ended normally with an error and two
\* Findings, one titled and one not, its last wait having slept the delay
C14_Witness ==
    /\ NormalEnd /\ Len(passes) = 3
    /\ errors = 1 /\ Len(incorrect_dimensions) = 2
    /\ incorrect_dimensions[1].title = "Unknown"
    /\ incorrect_dimensions[2].title = "Sonic"
    /\ Len(waits) = 2 /\ waits[2].slept = request_delay

(***************************************************************************)
(* Claims about the requests a run issues, checked under Spec.             *)
(***************************************************************************)
\* the kinds of the calls made for an identifier, in the order made
CallsFor(id) ==
    LET mine == SelectSeq(requests, LAMBDA r : r.id = id)
    IN  [i \in 1..Len(mine) |-> mine[i].kind]

\* C15: for every identifier the driver makes one rate-limiter wait, then
\* one metadata request, then at most one asset request and nothing else;
\* the asset request is made only for an identifier whose metadata was
\* fetched with a present, non-empty ImageIcon, with no wait before it; an
\* identifier that failed gets no further request.
C15_RequestsPerIdentifier ==
    /\ \A i \in Indexes(requests) :
          \E k \in Indexes(passes) : passes[k].id = requests[i].id
    /\ \A k \in Indexes(passes) :
          LET p == passes[k]
              calls == CallsFor(p.id)
          IN  /\ calls \in {<<>>, <<"wait", "metadata">>, <<"wait", "metadata", "asset">>}
              /\ calls = <<>> <=> p.meta = "pending"
              /\ Len(calls) = 3 <=> p.asset # "none"
              /\ Len(calls) = 3 => p.meta = "icon"
              /\ (p.ended /\ p.meta = "icon") => Len(calls) = 3
              /\ (p.ended /\ EndedInError(p)) =>
                    calls = IF p.meta = "icon"
                            THEN <<"wait", "metadata", "asset">>
                            ELSE <<"wait", "metadata">>

\* three identifiers are done: one whose metadata failed, one whose asset
\* request failed, one whose metadata has no icon path; seven calls in all
C15_Witness ==
    /\ Len(passes) = 3 /\ pc = "for"
    /\ passes[1].meta = "failed"
    /\ passes[2].meta = "icon" /\ passes[2].asset = "failed"
    /\ passes[3].meta = "noicon"
    /\ Len(requests) = 7

(***************************************************************************)
(* Claims about the progress lines, checked under LongSpec.                *)
(***************************************************************************)
ProgressLines == SelectSeq(output, LAMBDA l : l.kind = "progress")

\* a pass that ran to its end for an identifier whose metadata was fetched
Advanced(p) == p.ended /\ ~NoMetadata(p)

\* C16: a progress line is printed when processed reaches a positive
\* multiple of 10, once for each: the i-th progress line shows 10 * i
\* against the total end_id - start_id + 1; an identifier whose metadata
\* fetch failed does not advance processed and prints or repeats no
\* progress line.
C16_Progress ==
    /\ processed = HowMany(passes, Advanced)
    /\ Len(ProgressLines) = processed \div 10
    /\ \A i \in Indexes(ProgressLines) :
          /\ ProgressLines[i].processed = 10 * i
          /\ ProgressLines[i].total = end_id - start_id + 1

\* the second progress line, 20 of 22, is out, and after the tenth counted
\* identifier came one whose metadata fetch failed
C16_Witness ==
    /\ Len(ProgressLines) = 2
    /\ ProgressLines[2].processed = 20 /\ ProgressLines[2].total = 22
    /\ passes[10].counted /\ passes[11].meta = "failed" /\ passes[11].ended

(***************************************************************************)
(* Claims about the counters over a run, checked under Spec.               *)
(***************************************************************************)
IsPrefix(s, t) == Len(s) <= Len(t) /\ SubSeq(t, 1, Len(s)) = s

\* C17: in every step processed and errors stay or grow by 1, and the
\* Findings stay or get one record appended: every earlier value of the
\* Findings is a prefix of every later one, no record is changed or removed.
C17_Monotone ==
    [][/\ processed' \in {processed, processed + 1}
       /\ errors' \in {errors, errors + 1}
       /\ IsPrefix(incorrect_dimensions, incorrect_dimensions')
       /\ Len(incorrect_dimensions') <= Len(incorrect_dimensions) + 1]_vars

\* both counters have grown and a second Finding has followed a first
C17_Witness ==
    /\ processed >= 2 /\ errors >= 1
    /\ Len(incorrect_dimensions) = 2

\* the identifiers whose pass has started, and those without metadata
Started == Len(passes)

MetadataFailures == HowMany(passes, NoMetadata)

BetweenPasses == pc \in {"for", "report"} \/ NormalEnd

\* what C18 states of every state, whatever the range
CountingBounds ==
    /\ processed <= Started
    /\ errors <= Started
    /\ Len(incorrect_dimensions) + errors <= Started
    /\ BetweenPasses =>
          Len(incorrect_dimensions) + (errors - MetadataFailures) <= processed

\* C18 as stated: with n the number of identifiers whose pass has started,
\* processed <= n, errors <= n and len(Findings) + errors <= n; once the
\* current pass has finished, len(Findings) + (errors - metadata failures)
\* <= processed; at normal completion processed + metadata failures =
\* end_id - start_id + 1.
C18_CountingAsStated ==
    /\ CountingBounds
    /\ NormalEnd => processed + MetadataFailures = end_id - start_id + 1

\* C18 (amended): the same bounds, and at normal completion processed +
\* metadata failures = the number of identifiers of the range, which is
\* end_id - start_id + 1 when start_id <= end_id and 0 when the range is
\* empty.
C18_Counting ==
    /\ CountingBounds
    /\ NormalEnd => processed + MetadataFailures = Max(end_id - start_id + 1, 0)

\* a run of three identifiers, one of them without metadata, another with a
\* Finding, has ended normally
C18_Witness ==
    /\ NormalEnd /\ Started = 3 /\ end_id - start_id + 1 = 3
    /\ MetadataFailures = 1 /\ processed = 2
    /\ Len(incorrect_dimensions) = 1

(***************************************************************************)
(* Claims about the edges of the driver's input, checked under Spec.       *)
(***************************************************************************)
Counted(p) == p.counted

\* the record of a pass that ended as one without metadata does
EndedAsNoMetadata(p) ==
    /\ p.ended /\ ~p.counted
    /\ p.errs = 1 /\ p.finds = 0
    /\ p.asset = "none"
    /\ CallsFor(p.id) = <<"wait", "metadata">>

\* C19: a metadata answer that was fetched and parsed but is empty (null,
\* an empty object) is handled as a failed fetch is: the identifier ends
\* without metadata, errors grows by 1, processed does not grow and no
\* asset request is made; it is not counted as processed without an icon.
C19_EmptyIsNoMetadata ==
    /\ processed = HowMany(passes, Counted)
    /\ \A k \in Indexes(passes) :
          LET p == passes[k]
          IN  /\ (NoMetadata(p) /\ p.ended) => EndedAsNoMetadata(p)
              /\ (NoMetadata(p) /\ ~p.ended) =>
                    /\ k = Len(passes)
                    /\ p.errs = 0 /\ ~p.counted /\ p.asset = "none"
                    /\ pc = "check_data" \/ (pc = "exit" /\ LastLine = "partial")

\* after an identifier that was counted, the answer {} has ended its pass
\* with one error and processed as it was
C19_Witness ==
    /\ pc = "for" /\ Len(passes) = 2
    /\ response = [net |-> "ok", body |-> "{}"]
    /\ passes[1].counted /\ processed = 1
    /\ passes[2].meta = "empty" /\ EndedAsNoMetadata(passes[2])
    /\ errors >= 1

\* C20: when start_id > end_id the range is empty: no rate-limiter wait, no
\* request and no progress line, processed = 0, errors = 0 and no Finding
\* throughout; a run that the user does not interrupt ends with the one
\* report of these, which states that all icons are correct, and status 0.
C20_EmptyRange ==
    start_id > end_id =>
        /\ waits = <<>> /\ requests = <<>> /\ passes = <<>>
        /\ last_request = initial_last_request
        /\ ProgressLines = <<>>
        /\ processed = 0 /\ errors = 0 /\ incorrect_dimensions = <<>>
        /\ pc \in {"for", "report", "exit"}
        /\ (pc = "exit" /\ LastLine # "partial") =>
              /\ exit_code = 0
              /\ output = <<[kind |-> "results", processed |-> 0, errors |-> 0,
                             total |-> end_id - start_id + 1, findings |-> <<>>]>>

\* the run of the reversed range 2..0 has ended with its report
C20_Witness ==
    /\ start_id = 2 /\ end_id = 0
    /\ pc = "exit" /\ exit_code = 0
    /\ LastLine = "results"

=============================================================================
